---- MODULE Spec2Model ----
(***************************************************************************)
(* Model of llm_code_review (src/src/review.rs): the orchestration in      *)
(* `run`, the diff invoker `get_git_diff` and the context reducer          *)
(* `reduce_context_if_needed`.                                             *)
(*                                                                         *)
(* Rust strings are modelled as sequences of one-character strings, so     *)
(* that starts_with, join, trim, split_whitespace and format! are computed *)
(* the way the code computes them.  The text of a diff is opaque to the    *)
(* program: it is modelled by its length in bytes and a content tag.       *)
(***************************************************************************)
EXTENDS Integers, Sequences, FiniteSets, TLC

VARIABLES
    pc,           \* position in `run` (or in the unit harness of the reducer)
    cli,          \* the parsed Cli struct
    logger,       \* the process-wide logger: "none", "foreign" (installed
                  \* before `run` was called) or "installed" (by `run`)
    invocations,  \* the `git diff` processes spawned so far, in order
    diff_output,  \* the local `diff_output` of `run`
    call,         \* arguments of the evaluation of reduce_context_if_needed
    ret,          \* its outcome
    evaluations,  \* how many times reduce_context_if_needed was evaluated
    stdout,       \* what the process printed on standard output
    exit_status   \* "running", or how the process ended: "0", "1", "panic"

vars == <<pc, cli, logger, invocations, diff_output, call, ret, evaluations, stdout,
          exit_status>>

----------------------------------------------------------------------------
(* Bounds of the model *)

MaxContext == 3     \* largest -U value on the command line
MaxArgs == 2        \* most pass-through arguments
MaxVariant == 2     \* distinct diff texts of one length
MaxUnitLen == 8     \* longest diff text in the reducer's unit harness
MaxUnitBudget == 3  \* largest max_tokens in the reducer's unit harness
MaxUnitCpt == 2     \* largest chars_per_token in the reducer's unit harness

(* Program constants *)

max_tokens == 50000
chars_per_token == 4

----------------------------------------------------------------------------
(* Strings *)

Digits == <<"0", "1", "2", "3", "4", "5", "6", "7", "8", "9">>

IsDigit(c) == \E d \in 1..Len(Digits) : Digits[d] = c

IsWhitespace(c) == c = " "

\* Display of a usize, as format!("{}", n) prints it
RECURSIVE to_string(_)
to_string(n) ==
    IF n < 10 THEN <<Digits[n + 1]>>
    ELSE to_string(n \div 10) \o <<Digits[(n % 10) + 1]>>

starts_with(s, prefix) ==
    /\ Len(s) >= Len(prefix)
    /\ SubSeq(s, 1, Len(prefix)) = prefix

\* [String]::join(sep)
RECURSIVE join(_, _)
join(v, sep) ==
    IF Len(v) = 0 THEN <<>>
    ELSE IF Len(v) = 1 THEN v[1]
    ELSE v[1] \o sep \o join(Tail(v), sep)

RECURSIVE trim_start(_)
trim_start(s) ==
    IF Len(s) > 0 /\ IsWhitespace(s[1]) THEN trim_start(Tail(s)) ELSE s

RECURSIVE trim_end(_)
trim_end(s) ==
    IF Len(s) > 0 /\ IsWhitespace(s[Len(s)])
    THEN trim_end(SubSeq(s, 1, Len(s) - 1)) ELSE s

trim(s) == trim_end(trim_start(s))

\* str::split_whitespace: the maximal runs of non-whitespace, in order
RECURSIVE split_from(_, _, _)
split_from(s, i, word) ==
    IF i > Len(s) THEN (IF word = <<>> THEN <<>> ELSE <<word>>)
    ELSE IF IsWhitespace(s[i])
         THEN (IF word = <<>> THEN <<>> ELSE <<word>>) \o split_from(s, i + 1, <<>>)
         ELSE split_from(s, i + 1, Append(word, s[i]))

split_whitespace(s) == split_from(s, 1, <<>>)

Space == <<" ">>
ShortFlag == <<"-", "U">>
LongFlag == <<"-", "-", "u", "n", "i", "f", "i", "e", "d", "=">>

----------------------------------------------------------------------------
(* Inputs *)

ArgMain == <<"m", "a", "i", "n">>
ArgLong10 == LongFlag \o <<"1", "0">>
ArgShort5 == ShortFlag \o <<"5">>
ArgDashes == <<"-", "-">>

\* values of one pass-through argument
PassThrough == {ArgMain, ArgLong10, ArgShort5, ArgDashes}

SeqsUpTo(S, n) == UNION {[1..k -> S] : k \in 0..n}

\* lengths of the text a diff process writes, around the budget's edges
DiffLengths == {0, 1, 3, 4, 120000, 200000, 200003, 200004, 400000}

DiffTexts == [len : DiffLengths, variant : 1..MaxVariant]

NoText == [len |-> 0, variant |-> 0]

\* a diff process fails to spawn, or exits with a status and its output
ProcessOutcomes ==
    [spawned : {FALSE}, success : {FALSE}, out : {NoText}]
    \cup [spawned : {TRUE}, success : BOOLEAN, out : DiffTexts]

CliValues ==
    [ unified_context : 0..MaxContext,
      force_reduced : BOOLEAN,
      show_system_prompt : BOOLEAN,
      remaining_args : SeqsUpTo(PassThrough, MaxArgs) ]

\* the arguments reduce_context_if_needed is evaluated with
Call(args, context, force, len, budget, cpt) ==
    [ called |-> TRUE, git_args |-> args, unified_context |-> context,
      force_reduced |-> force, len |-> len, max_tokens |-> budget,
      chars_per_token |-> cpt ]

NoCall == [ called |-> FALSE, git_args |-> <<>>, unified_context |-> 0,
            force_reduced |-> FALSE, len |-> 0, max_tokens |-> 0,
            chars_per_token |-> 0 ]

----------------------------------------------------------------------------
(* reduce_context_if_needed *)

estimate(len, cpt) == len \div cpt

Max(a, b) == IF a >= b THEN a ELSE b

\* mutant of reduced_context: the .max(1) is left out
reduced_context_Unclamped(context, budget, estimated) ==
    (context * budget) \div estimated

\* (unified_context * max_tokens / estimated_tokens).max(1); the caller has
\* excluded estimated = 0, where the division panics
reduced_context(context, budget, estimated) ==
    Max((context * budget) \div estimated, 1)

rewrite_arg(arg, reduced) ==
    IF starts_with(arg, ShortFlag) THEN ShortFlag \o to_string(reduced)
    ELSE IF starts_with(arg, LongFlag) THEN LongFlag \o to_string(reduced)
    ELSE arg

new_git_args(git_args, reduced) ==
    [i \in 1..Len(git_args) |-> rewrite_arg(git_args[i], reduced)]

Outcome(kind, estimated, reduced, args) ==
    [ kind |-> kind, estimated_tokens |-> estimated,
      reduced_context |-> reduced, new_args |-> args ]

NoRet == Outcome("NotCalled", 0, 0, <<>>)

\* mutant of reduce_context_if_needed: the budget test is < instead of <=
reduce_context_if_needed_Strict(c) ==
    LET estimated == estimate(c.len, c.chars_per_token)
    IN  IF estimated < c.max_tokens /\ ~c.force_reduced
        THEN Outcome("None", estimated, 0, <<>>)
        ELSE IF estimated = 0
        THEN Outcome("Panic", estimated, 0, <<>>)
        ELSE LET reduced == reduced_context(c.unified_context, c.max_tokens, estimated)
                 args == new_git_args(c.git_args, reduced)
             IN  IF estimate(c.len, c.chars_per_token) > c.max_tokens
                 THEN Outcome("Exit1", estimated, reduced, args)
                 ELSE Outcome("Some", estimated, reduced, args)

\* kind is "None", "Some" (new_args returned), "Exit1" (process::exit(1))
\* or "Panic" (integer division by zero)
reduce_context_if_needed(c) ==
    LET estimated == estimate(c.len, c.chars_per_token)
    IN  IF estimated <= c.max_tokens /\ ~c.force_reduced
        THEN Outcome("None", estimated, 0, <<>>)
        ELSE IF estimated = 0
        THEN Outcome("Panic", estimated, 0, <<>>)
        ELSE LET reduced == reduced_context(c.unified_context, c.max_tokens, estimated)
                 args == new_git_args(c.git_args, reduced)
             IN  IF estimate(c.len, c.chars_per_token) > c.max_tokens
                 THEN Outcome("Exit1", estimated, reduced, args)
                 ELSE Outcome("Some", estimated, reduced, args)

----------------------------------------------------------------------------
(* run *)

Stdout(kind, text) == [kind |-> kind, diff |-> text]

\* vec![format!("-U{}", cli.unified_context), cli.remaining_args.join(" ")]
git_args_vec(c) ==
    << ShortFlag \o to_string(c.unified_context), join(c.remaining_args, Space) >>

\* the discrete arguments `git diff` is spawned with
command_args(git_args) == split_whitespace(trim(git_args))

\* mutant of get_git_diff: the empty output is tested before the exit status
get_git_diff_EmptyFirst(git_args, o, next) ==
    /\ invocations' = Append(invocations,
            [git_args |-> git_args, argv |-> command_args(git_args), outcome |-> o])
    /\ IF ~o.spawned
       THEN /\ pc' = "exited" /\ exit_status' = "panic"
            /\ UNCHANGED <<diff_output, stdout>>
       ELSE IF o.out.len = 0
       THEN /\ pc' = "exited" /\ exit_status' = "0"
            /\ stdout' = Stdout("no_changes", NoText)
            /\ UNCHANGED diff_output
       ELSE IF ~o.success
       THEN /\ pc' = "exited" /\ exit_status' = "1"
            /\ UNCHANGED <<diff_output, stdout>>
       ELSE /\ pc' = next
            /\ diff_output' = o.out
            /\ UNCHANGED <<stdout, exit_status>>

\* get_git_diff(git_args) meeting process outcome o; on a returned text the
\* caller goes on at `next`
get_git_diff(git_args, o, next) ==
    /\ invocations' = Append(invocations,
            [git_args |-> git_args, argv |-> command_args(git_args), outcome |-> o])
    /\ IF ~o.spawned
       THEN /\ pc' = "exited" /\ exit_status' = "panic"
            /\ UNCHANGED <<diff_output, stdout>>
       ELSE IF ~o.success
       THEN /\ pc' = "exited" /\ exit_status' = "1"
            /\ UNCHANGED <<diff_output, stdout>>
       ELSE IF o.out.len = 0
       THEN /\ pc' = "exited" /\ exit_status' = "0"
            /\ stdout' = Stdout("no_changes", NoText)
            /\ UNCHANGED diff_output
       ELSE /\ pc' = next
            /\ diff_output' = o.out
            /\ UNCHANGED <<stdout, exit_status>>

\* `run` is public: a process may have installed a logger before calling it
Init ==
    /\ pc = "start"
    /\ cli \in CliValues
    /\ logger \in {"none", "foreign"}
    /\ invocations = <<>>
    /\ diff_output = NoText
    /\ call = NoCall
    /\ ret = NoRet
    /\ evaluations = 0
    /\ stdout = Stdout("nothing", NoText)
    /\ exit_status = "running"

\* SimpleLogger::new().with_level(log_level).init().unwrap(): init fails, and
\* unwrap panics, when a logger is installed already
InitLogger ==
    /\ pc = "start"
    /\ IF logger # "none"
       THEN /\ pc' = "exited" /\ exit_status' = "panic"
            /\ UNCHANGED logger
       ELSE /\ pc' = "options"
            /\ logger' = "installed"
            /\ UNCHANGED exit_status
    /\ UNCHANGED <<cli, invocations, diff_output, call, ret, evaluations, stdout>>

ShowSystemPrompt ==
    /\ pc = "options"
    /\ cli.show_system_prompt
    /\ stdout' = Stdout("system_prompt", NoText)
    /\ pc' = "exited"
    /\ exit_status' = "0"
    /\ UNCHANGED <<cli, logger, invocations, diff_output, call, ret, evaluations>>

FirstDiff ==
    /\ pc = "options"
    /\ ~cli.show_system_prompt
    /\ \E o \in ProcessOutcomes :
            get_git_diff(join(git_args_vec(cli), Space), o, "reduce")
    /\ UNCHANGED <<cli, logger, call, ret, evaluations>>

Reduce ==
    /\ pc = "reduce"
    /\ LET c == Call(git_args_vec(cli), cli.unified_context, cli.force_reduced,
                     diff_output.len, max_tokens, chars_per_token)
           r == reduce_context_if_needed(c)
       IN  /\ call' = c
           /\ ret' = r
           /\ evaluations' = evaluations + 1
           /\ pc' = CASE r.kind = "None" -> "print"
                      [] r.kind = "Some" -> "rediff"
                      [] OTHER -> "exited"
           /\ exit_status' = CASE r.kind = "Exit1" -> "1"
                               [] r.kind = "Panic" -> "panic"
                               [] OTHER -> exit_status
    /\ UNCHANGED <<cli, logger, invocations, diff_output, stdout>>

\* mutant of SecondDiff: the diff runs again with the original arguments
SecondDiff_OriginalArgs ==
    /\ pc = "rediff"
    /\ \E o \in ProcessOutcomes :
            get_git_diff(join(git_args_vec(cli), Space), o, "print")
    /\ UNCHANGED <<cli, logger, call, ret, evaluations>>

SecondDiff ==
    /\ pc = "rediff"
    /\ \E o \in ProcessOutcomes :
            get_git_diff(join(ret.new_args, Space), o, "print")
    /\ UNCHANGED <<cli, logger, call, ret, evaluations>>

PrintPrompt ==
    /\ pc = "print"
    /\ stdout' = Stdout("prompt", diff_output)
    /\ pc' = "exited"
    /\ exit_status' = "0"
    /\ UNCHANGED <<cli, logger, invocations, diff_output, call, ret, evaluations>>

Next ==
    \/ InitLogger
    \/ ShowSystemPrompt
    \/ FirstDiff
    \/ Reduce
    \/ SecondDiff
    \/ PrintPrompt

Spec == Init /\ [][Next]_vars

----------------------------------------------------------------------------
(* reduce_context_if_needed on its own, over its whole domain *)

UnitCalls ==
    { Call(args, context, force, len, budget, cpt) :
        args \in SeqsUpTo(PassThrough, MaxArgs),
        context \in 0..MaxContext,
        force \in BOOLEAN,
        len \in 0..MaxUnitLen,
        budget \in 1..MaxUnitBudget,
        cpt \in 1..MaxUnitCpt }

UnitCli ==
    [ unified_context |-> 0, force_reduced |-> FALSE,
      show_system_prompt |-> FALSE, remaining_args |-> <<>> ]

InitReduce ==
    /\ pc = "unit"
    /\ cli = UnitCli
    /\ logger = "none"
    /\ invocations = <<>>
    /\ diff_output = NoText
    /\ call \in UnitCalls
    /\ ret = NoRet
    /\ evaluations = 0
    /\ stdout = Stdout("nothing", NoText)
    /\ exit_status = "running"

UnitReduce ==
    /\ pc = "unit"
    /\ ret' = reduce_context_if_needed(call)
    /\ evaluations' = evaluations + 1
    /\ pc' = "unit_done"
    /\ UNCHANGED <<cli, logger, invocations, diff_output, call, stdout, exit_status>>

NextReduce == UnitReduce

ReduceSpec == InitReduce /\ [][NextReduce]_vars

----------------------------------------------------------------------------
(* Properties *)

Exited == pc = "exited"

PromptPrinted == stdout.kind = "prompt"

Estimated(text) == estimate(text.len, chars_per_token)

\* the process of invocation i exited 0 and wrote a non-empty text
Returned(i) ==
    /\ i <= Len(invocations)
    /\ invocations[i].outcome.spawned
    /\ invocations[i].outcome.success
    /\ invocations[i].outcome.out.len > 0

IsAllDigits(s) == Len(s) >= 1 /\ \A i \in 1..Len(s) : IsDigit(s[i])

\* ^-U[0-9]+$
IsShortForm(tok) ==
    /\ starts_with(tok, ShortFlag)
    /\ IsAllDigits(SubSeq(tok, Len(ShortFlag) + 1, Len(tok)))

\* ^--unified=[0-9]+$
IsLongForm(tok) ==
    /\ starts_with(tok, LongFlag)
    /\ IsAllDigits(SubSeq(tok, Len(LongFlag) + 1, Len(tok)))

\* the rewrite the specification asks for, token by token
ExpectedToken(tok, reduced) ==
    IF IsShortForm(tok) THEN ShortFlag \o to_string(reduced)
    ELSE IF IsLongForm(tok) THEN LongFlag \o to_string(reduced)
    ELSE tok

ExpectedRewrite(toks, reduced) ==
    [i \in 1..Len(toks) |-> ExpectedToken(toks[i], reduced)]

\* q = floor(a / b), stated without the division
IsFloor(q, a, b) == q * b <= a /\ a < (q + 1) * b

\* C1: whenever a prompt is printed, the diff text in it is within the budget
\* (estimated tokens <= max_tokens); a run whose second diff output is over
\* budget ends with exit status 1 and prints no prompt.
C1_BudgetSafety ==
    /\ PromptPrinted => Estimated(stdout.diff) <= max_tokens
    /\ (Exited /\ Returned(2) /\ Estimated(invocations[2].outcome.out) > max_tokens)
          => (exit_status = "1" /\ ~PromptPrinted)

\* C2: when the first diff output is over budget and the force flag is unset,
\* the reducer returns rewritten arguments whose context flag carries
\* max(1, floor(unified_context * max_tokens / estimated_tokens)), and the run
\* invokes the diff command a second time with them.
C2_OverBudgetReinvokes ==
    (/\ call.called
     /\ ~call.force_reduced
     /\ estimate(call.len, call.chars_per_token) > call.max_tokens)
    => /\ ret.kind = "Some"
       /\ \E q \in 0..(call.unified_context * call.max_tokens) :
             /\ IsFloor(q, call.unified_context * call.max_tokens,
                        estimate(call.len, call.chars_per_token))
             /\ ret.new_args[1] = ShortFlag \o to_string(Max(1, q))
       /\ \/ pc = "rediff"
          \/ /\ Len(invocations) = 2
             /\ invocations[2].git_args = join(ret.new_args, Space)

\* C3: an evaluation of the reducer on a diff text shorter than
\* chars_per_token (zero estimated tokens) never panics and returns None,
\* whether or not the force flag is set.
C3_ZeroEstimateGuard ==
    (call.called /\ ret.kind # "NotCalled"
        /\ estimate(call.len, call.chars_per_token) = 0)
    => (ret.kind = "None" /\ exit_status # "panic")

\* C4 as stated: every run invokes the diff command at least once and at most
\* twice.
C4_EveryRunInvokesDiff ==
    Exited => (Len(invocations) >= 1 /\ Len(invocations) <= 2)

\* the run gets past start-up: it installs the logger and is not asked for
\* the default prompt
PastStartup == logger = "installed" /\ ~cli.show_system_prompt

\* C4 as amended: a run that gets past start-up (the logger is installed and
\* --show-system-prompt is not given) invokes the diff command at least once;
\* every run invokes it at most twice; a second invocation is made only after
\* the reducer returned Some(new_args) for the first invocation's output, and
\* with exactly new_args; the reducer is evaluated at most once; a run that
\* has ended takes no further step.
C4_SingleRetry ==
    /\ Len(invocations) <= 2
    /\ (Exited /\ PastStartup) => Len(invocations) >= 1
    /\ (Exited /\ ~PastStartup) => Len(invocations) = 0
    /\ Len(invocations) = 2 =>
          /\ Returned(1)
          /\ call.len = invocations[1].outcome.out.len
          /\ ret.kind = "Some"
          /\ invocations[2].git_args = join(ret.new_args, Space)
          /\ invocations[2].argv = split_whitespace(join(ret.new_args, Space))
    /\ evaluations <= 1
    /\ evaluations = 1 => Returned(1)
    /\ Exited => ~ENABLED Next

\* a forced reduction changed the context count and the diff ran again
C4_Witness ==
    /\ Exited
    /\ Len(invocations) = 2
    /\ invocations[2].git_args # invocations[1].git_args
    /\ PromptPrinted

C6_UnderBudgetNoOp ==
    (/\ Returned(1)
     /\ Estimated(invocations[1].outcome.out) <= max_tokens
     /\ ~cli.force_reduced)
    => /\ Len(invocations) = 1
       /\ pc # "rediff"
       /\ evaluations = 1 => ret.kind = "None"
       /\ Exited => /\ evaluations = 1
                    /\ stdout = Stdout("prompt", invocations[1].outcome.out)
                    /\ exit_status = "0"

\* 120,000 characters at context 3: 30,000 tokens, printed as they came
C6_Witness ==
    /\ Exited
    /\ ~cli.force_reduced
    /\ cli.unified_context = 3
    /\ Len(invocations) = 1
    /\ invocations[1].outcome.out.len = 120000
    /\ PromptPrinted
    /\ stdout.diff = invocations[1].outcome.out

\* C7: when the reducer returns Some(new_args), new_args is as long as the
\* input; an argument that is neither -U<digits> nor --unified=<digits> is
\* returned identical; a -U<digits> argument becomes -U<reduced> and a
\* --unified=<digits> argument becomes --unified=<reduced>, in place.
C7_RewriteTouchesOnlyFlags ==
    ret.kind = "Some" =>
        /\ Len(ret.new_args) = Len(call.git_args)
        /\ \A i \in 1..Len(call.git_args) :
              ret.new_args[i] = ExpectedToken(call.git_args[i], ret.reduced_context)

\* C8: the tokens the diff command receives the second time are those it
\* received the first time, in order and number, with every -U<digits> and
\* --unified=<digits> token carrying the reduced count.
C8_EndToEndRewrite ==
    Len(invocations) = 2 =>
        invocations[2].argv = ExpectedRewrite(invocations[1].argv, ret.reduced_context)

\* C9: for unified_context >= 1 and estimated_tokens > max_tokens > 0 the
\* reduced count is max(1, floor(unified_context * max_tokens /
\* estimated_tokens)), at least 1, at most unified_context, and below
\* unified_context when unified_context >= 2.
C9_ReducedBounds ==
    LET context == call.unified_context
        estimated == estimate(call.len, call.chars_per_token)
        reduced == ret.reduced_context
    IN  (/\ ret.kind # "NotCalled"
         /\ context >= 1
         /\ call.max_tokens > 0
         /\ estimated > call.max_tokens)
        => /\ \E q \in 0..(context * call.max_tokens) :
                 /\ IsFloor(q, context * call.max_tokens, estimated)
                 /\ reduced = (IF q >= 1 THEN q ELSE 1)
           /\ reduced >= 1
           /\ reduced <= context
           /\ context >= 2 => reduced < context

\* context 3, budget 3, four estimated tokens: floor(9 / 4) = 2
C9_Witness ==
    /\ pc = "unit_done"
    /\ call.unified_context = 3
    /\ call.max_tokens = 3
    /\ estimate(call.len, call.chars_per_token) = 4
    /\ ret.reduced_context = 2

\* C10: the context count carried by the second invocation's -U flag is at
\* most the count the first invocation used.
C10_NeverWidens ==
    Len(invocations) = 2 =>
        \E k \in 0..cli.unified_context :
            invocations[2].argv[1] = ShortFlag \o to_string(k)

====
